---- MODULE Spec2Model ----
(***************************************************************************)
(* Model of the Real-Time Memory Allocation Tracker.                       *)
(*                                                                         *)
(* Two allocators are modelled, each from its own source:                  *)
(*   - the list-based FirstFitAllocator of main.cpp (std::list of blocks,  *)
(*     a handle is the address of a list node);                            *)
(*   - the vector-based FirstFitAllocator of FirstFitAllocator.h           *)
(*     (std::vector of blocks, a handle is the address of a vector slot).  *)
(* A client holds the handles allocate returned and hands them back to     *)
(* deallocate. The round-robin scheduler of main.cpp drives the list-based *)
(* allocator.                                                              *)
(***************************************************************************)
EXTENDS Integers, Sequences, FiniteSets, TLC

\* ---------------------------------------------------------------- bounds
\* Size of the arena (the constructor's argument).
TotalSize == 36
\* Number of allocate calls a client makes in one run.
MaxAllocs == 4
\* Number of tasks added to the round-robin scheduler.
MaxTasks == 2
\* Largest executionTime of a task.
MaxExec == 3
\* Largest quantum of the round-robin scheduler.
MaxQuantum == 2

\* ------------------------------------------------------ program constants
\* FirstFitAllocator.h:35, "block.size <= size + 16".
Threshold == 16

\* Request sizes the client draws from: a small request, and requests on
\* both sides of the threshold relative to each other.
Sizes == {1, Threshold + 2}

\* nullptr, for a list-node address.
NULL == 0
\* nullptr, for a pointer into the vector's buffer <<buffer, slot>>.
VNULL == <<0, 0>>

Min(S) == CHOOSE x \in S : \A y \in S : x <= y

VARIABLES
    impl,      \* which allocator the program was built with: "list" | "vector"
    blocks,    \* main.cpp:22, std::list<MemoryBlock>; each node with its address
    vec,       \* FirstFitAllocator.h:21, std::vector<MemoryBlock>: buffer, capacity, elements
    growth,    \* the standard library's vector growth policy: "x2" | "x1.5"
    held,      \* the handles the client got from allocate, in order
    last,      \* the last operation performed and what it returned
    pre,       \* the block collection as it was before the last operation
    rrTasks,   \* main.cpp:90, RRScheduler::tasks, the queue, front first
    quantum,   \* main.cpp:91, RRScheduler::quantum
    pc,        \* where the program is: "client"; in RRScheduler::processTasks "loop" |
               \* "run" | "release", "done" once it returned; in SJFScheduler::processTasks
               \* "sjf" | "sjfhold", "exit" once main returned; in TaskSimulator::processTasks
               \* "sim" | "simhold", "simdone" once it returned; "ctor" before construction
    task,      \* main.cpp:100, processTasks' local copy of the front task
    block,     \* main.cpp:106, processTasks' local pointer to the allocated block
    slice,     \* the last slice served: task, time before, time run
    completed, \* ids of the tasks reported "completed execution"
    totalSize, \* main.cpp:23, MemoryAllocator::totalSize (FirstFitAllocator.h:20, totalMemory)
    sjfTasks,  \* main.cpp:137, SJFScheduler::tasks
    sjfPos,    \* main.cpp:148, the position of the range-for over SJFScheduler::tasks
    simTasks,  \* tempCodeRunnerFile.h:26, TaskSimulator::tasks, the queue, front first
    log,       \* what the schedulers did, in order: allocations, failures, slices, releases
    rrAdded,   \* the tasks given to RRScheduler::addTask, in order
    sjfAdded   \* the tasks given to SJFScheduler::addTask, in order

clientVars == <<held, last, pre>>
drvVars == <<totalSize, sjfTasks, sjfPos, simTasks, log, rrAdded, sjfAdded>>
rrVars == <<rrTasks, quantum, pc, task, block, slice, completed, drvVars>>
vars == <<impl, blocks, vec, growth, held, last, pre,
          rrTasks, quantum, pc, task, block, slice, completed,
          totalSize, sjfTasks, sjfPos, simTasks, log, rrAdded, sjfAdded>>

\* ============================================================ list allocator
\* main.cpp:12-17, MemoryBlock with the address of the list node holding it.
Node(a, s, sz, f) == [addr |-> a, start |-> s, size |-> sz, free |-> f]

\* main.cpp:24-26, the constructor: one free block covering the arena.
ListInit(total) == <<Node(1, 0, total, TRUE)>>

\* The scan with "it->size > size" for ">=": an exact fit is passed over.
ListScanStrict(bs, size) ==
    LET fits == {i \in 1..Len(bs) : bs[i].free /\ bs[i].size > size}
    IN  IF fits = {} THEN 0 ELSE Min(fits)

\* main.cpp:37-38, the scan: the first node, in list order, that is free and
\* large enough; 0 stands for blocks.end().
ListScan(bs, size) ==
    LET fits == {i \in 1..Len(bs) : bs[i].free /\ bs[i].size >= size}
    IN  IF fits = {} THEN 0 ELSE Min(fits)

\* The split with the remainder inserted at startAddr for startAddr + size.
ListSplitSameStart(b, size, na) ==
    LET remaining == b.size - size
        startAddr == b.start
        taken     == [b EXCEPT !.free = FALSE, !.size = size]
    IN  IF remaining > 0
        THEN <<taken, Node(na, startAddr, remaining, TRUE)>>
        ELSE <<taken>>

\* main.cpp:39-45, the chosen node is shrunk to the request and, when
\* something remains, a new free node is inserted right after it.
ListSplit(b, size, na) ==
    LET remaining == b.size - size
        startAddr == b.start
        taken     == [b EXCEPT !.free = FALSE, !.size = size]
    IN  IF remaining > 0
        THEN <<taken, Node(na, startAddr + size, remaining, TRUE)>>
        ELSE <<taken>>

\* main.cpp:36-50, allocate: the new list and the returned pointer.
ListAllocate(bs, size, na) ==
    LET i == ListScan(bs, size)
    IN  IF i = 0
        THEN [blocks |-> bs, ret |-> NULL]
        ELSE [blocks |-> SubSeq(bs, 1, i - 1) \o ListSplit(bs[i], size, na)
                         \o SubSeq(bs, i + 1, Len(bs)),
              ret    |-> bs[i].addr]

\* Removal of the element at position i (list::erase, vector::erase).
Erase(s, i) == SubSeq(s, 1, i - 1) \o SubSeq(s, i + 1, Len(s))

\* main.cpp:56-63, merge with the previous node if it is free: the list and
\* the position `it` ends at.
ListMergePrev(bs, i) ==
    IF i > 1 /\ bs[i - 1].free
    THEN [blocks |-> Erase([bs EXCEPT ![i - 1].size = bs[i - 1].size + bs[i].size], i),
          it     |-> i - 1]
    ELSE [blocks |-> bs, it |-> i]

\* deallocate without the merge with the next node.
ListMergeNextNever(bs, i) == bs

\* main.cpp:65-69, merge with the next node if it is free.
ListMergeNext(bs, i) ==
    IF i + 1 <= Len(bs) /\ bs[i + 1].free
    THEN Erase([bs EXCEPT ![i].size = bs[i].size + bs[i + 1].size], i + 1)
    ELSE bs

\* main.cpp:51-73, deallocate: the node whose address equals the pointer is
\* freed and merged; no node at that address, nothing happens.
ListDeallocate(bs, ptr) ==
    LET hit == {i \in 1..Len(bs) : bs[i].addr = ptr}
    IN  IF hit = {}
        THEN bs
        ELSE LET i     == Min(hit)
                 freed == [bs EXCEPT ![i].free = TRUE]
                 p     == ListMergePrev(freed, i)
             IN  ListMergeNext(p.blocks, p.it)

\* The heap's addresses for list nodes: enough for every node the client's
\* calls can create, and one to spare.
NodeAddrs == 1..(MaxAllocs + 2)

\* main.cpp:44, the addresses operator new may return for the node
\* blocks.insert creates: any address no live node occupies. The address of
\* an erased node may come back, and matters when a client still holds a
\* pointer to it; addresses nobody points to are alike, so the lowest of
\* them stands for all.
FreeAddrs(bs, ptrs) ==
    LET unused  == NodeAddrs \ {bs[i].addr : i \in 1..Len(bs)}
        pointed == unused \cap ptrs
        others  == unused \ ptrs
    IN  pointed \cup (IF others = {} THEN {} ELSE {Min(others)})

\* ========================================================== vector allocator
\* FirstFitAllocator.h:9-15, MemoryBlock.
Block(s, sz, f) == [start |-> s, size |-> sz, free |-> f]

\* std::vector growth on a push_back into a full buffer: libstdc++ and libc++
\* double the capacity, MSVC grows it by half.
Grow(cap, policy) ==
    IF cap = 0
    THEN 1
    ELSE IF policy = "x2"
    THEN 2 * cap
    ELSE IF cap + (cap \div 2) > cap THEN cap + (cap \div 2) ELSE cap + 1

\* FirstFitAllocator.h:48, blocks.push_back: a full buffer is replaced by a
\* new one, which invalidates every pointer into the old one.
PushBack(v, e, policy) ==
    IF Len(v.elems) = v.cap
    THEN [data |-> v.data + 1, cap |-> Grow(v.cap, policy), elems |-> Append(v.elems, e)]
    ELSE [v EXCEPT !.elems = Append(v.elems, e)]

\* FirstFitAllocator.h:25-27, the constructor.
VecInit(total, policy) ==
    PushBack([data |-> 0, cap |-> 0, elems |-> <<>>], Block(0, total, TRUE), policy)

\* FirstFitAllocator.h:31-33, the scan, in vector order; 0: no block found.
VecScan(es, size) ==
    LET fits == {i \in 1..Len(es) : es[i].free /\ es[i].size >= size}
    IN  IF fits = {} THEN 0 ELSE Min(fits)

\* The threshold test off by one: a slack of 17 is still taken whole.
TakeWholeOffByOne(b, size) == b.size <= size + Threshold + 1

\* FirstFitAllocator.h:35, the fragmentation threshold: take the whole block.
TakeWhole(b, size) == b.size <= size + Threshold

\* FirstFitAllocator.h:30-54, allocate: the new vector and the returned
\* pointer &blocks[i], taken after the push_back.
VecAllocate(v, size, policy) ==
    LET i == VecScan(v.elems, size)
    IN  IF i = 0
        THEN [vec |-> v, ret |-> VNULL]
        ELSE IF TakeWhole(v.elems[i], size)
        THEN LET w == [v EXCEPT !.elems[i].free = FALSE]
             IN  [vec |-> w, ret |-> <<w.data, i>>]
        ELSE LET newStart == v.elems[i].start + size
                 newSize  == v.elems[i].size - size
                 shrunk   == [v EXCEPT !.elems[i].size = size, !.elems[i].free = FALSE]
                 w        == PushBack(shrunk, Block(newStart, newSize, TRUE), policy)
             IN  [vec |-> w, ret |-> <<w.data, i>>]

\* FirstFitAllocator.h:75-78, std::sort by start address (insertion into a
\* sorted prefix; starts are distinct, so the result is unique).
RECURSIVE SortByStart(_)
SortByStart(es) ==
    IF Len(es) <= 1
    THEN es
    ELSE LET m    == CHOOSE i \in 1..Len(es) : \A j \in 1..Len(es) :
                         es[i].start < es[j].start \/ (es[i].start = es[j].start /\ i <= j)
         IN  <<es[m]>> \o SortByStart(Erase(es, m))

\* The merge loop that steps on after a merge, and so never merges a third
\* block into the two it just joined.
RECURSIVE MergeLoopSkipping(_, _)
MergeLoopSkipping(es, i) ==
    IF ~(i < Len(es))
    THEN es
    ELSE IF es[i].free /\ es[i + 1].free
    THEN MergeLoopSkipping(Erase([es EXCEPT ![i].size = es[i].size + es[i + 1].size], i + 1),
                           i + 1)
    ELSE MergeLoopSkipping(es, i + 1)

\* FirstFitAllocator.h:80-89, the merge loop from position i (1-based).
RECURSIVE MergeLoop(_, _)
MergeLoop(es, i) ==
    IF ~(i < Len(es))
    THEN es
    ELSE IF es[i].free /\ es[i + 1].free
    THEN MergeLoop(Erase([es EXCEPT ![i].size = es[i].size + es[i + 1].size], i + 1), i)
    ELSE MergeLoop(es, i + 1)

\* FirstFitAllocator.h:73-90, mergeAdjacentFreeBlocks.
MergeAdjacentFreeBlocks(es) == MergeLoop(SortByStart(es), 1)

\* FirstFitAllocator.h:61-66, the first block whose start and size equal the
\* ones read through the pointer is marked free.
MarkFree(es, key) ==
    LET hit == {i \in 1..Len(es) : es[i].start = key[1] /\ es[i].size = key[2]}
    IN  IF hit = {} THEN es ELSE [es EXCEPT ![Min(hit)].free = TRUE]

\* FirstFitAllocator.h:60-69, the body of deallocate past the null check,
\* given the <<start, size>> read through the pointer.
VecDeallocate(v, key) ==
    [v EXCEPT !.elems = MergeAdjacentFreeBlocks(MarkFree(v.elems, key))]

\* FirstFitAllocator.h:62, block->start and block->size. A pointer into the
\* current buffer at a slot in use reads that slot, whatever block sort and
\* erase have moved there. A pointer into a replaced buffer, or at a slot past
\* the end, is invalid and the read is undefined: any pair may come back. Only
\* equality with a block's pair matters to the caller, so the pairs of all
\* blocks and one pair that matches no block stand for all of them.
Deref(v, p) ==
    IF p[1] = v.data /\ p[2] \in 1..Len(v.elems)
    THEN {<<v.elems[p[2]].start, v.elems[p[2]].size>>}
    ELSE {<<v.elems[i].start, v.elems[i].size>> : i \in 1..Len(v.elems)} \cup {<<-1, -1>>}

\* FirstFitAllocator.h:57-70, deallocate(ptr): the vectors the call may
\* leave, one for each pair the read through the pointer may give.
VecDeallocateCall(v, ptr) ==
    IF ptr = VNULL
    THEN {v}
    ELSE {VecDeallocate(v, key) : key \in Deref(v, ptr)}

\* ==================================================================== views
\* The block collection as a set of {start, size, free}, for either allocator.
AsBlocks(s) == {Block(s[i].start, s[i].size, s[i].free) : i \in 1..Len(s)}

Container == IF impl = "list" THEN blocks ELSE vec.elems

View == AsBlocks(Container)

\* ================================================================== client
\* main.cpp:78-85, RealTimeTask.
RealTimeTask(i, mem, execTime, prio) ==
    [id |-> i, memoryRequired |-> mem, executionTime |-> execTime, priority |-> prio]

\* No task is being processed; no slice was served yet.
NoTask == RealTimeTask(0, 0, 0, 0)
NoSlice == [id |-> 0, before |-> 0, ran |-> 0]

\* One entry of the log: the scheduler ("rr" | "sjf" | "sim"), the task's id
\* and what happened: "alloc" (allocate returned a block), "fail" (it
\* returned nullptr), "slice" (round-robin served a slice), "dealloc".
Event(sched, i, ev) == [sched |-> sched, id |-> i, ev |-> ev]

\* What the client keeps of a successful allocate: the pointer, and the start
\* and size the returned block had; live until the client hands it back.
Handle(p, s, sz) == [ptr |-> p, start |-> s, size |-> sz, live |-> TRUE]

\* The record of the last call: op is "init", "alloc" or "dealloc"; size is
\* the request (alloc); start is the start of the returned block (-1: nullptr)
\* or of the block the handle was given for (dealloc); h is the handle's
\* position in held (0: none, nullptr); valid says whether the client held the
\* handle live when it made the call.
Call(op, size, start, h, valid) ==
    [op |-> op, size |-> size, start |-> start, h |-> h, valid |-> valid]

Init ==
    /\ impl \in {"list", "vector"}
    /\ growth \in {"x2", "x1.5"}
    /\ impl = "list" => growth = "x2"
    /\ blocks = ListInit(TotalSize)
    /\ vec = VecInit(TotalSize, growth)
    /\ held = <<>>
    /\ last = Call("init", 0, -1, 0, TRUE)
    /\ pre = {}
    /\ rrTasks = <<>>
    /\ quantum = 1
    /\ pc = "client"
    /\ task = NoTask
    /\ block = NULL
    /\ slice = NoSlice
    /\ completed = {}
    /\ totalSize = TotalSize
    /\ sjfTasks = <<>>
    /\ sjfPos = 0
    /\ simTasks = <<>>
    /\ log = <<>>
    /\ rrAdded = <<>>
    /\ sjfAdded = <<>>

\* A client's call of allocate(size) on the list-based allocator.
AllocateList(size) ==
    /\ impl = "list"
    /\ Len(held) < MaxAllocs
    /\ \E na \in FreeAddrs(blocks, {held[i].ptr : i \in 1..Len(held)}) :
        LET r == ListAllocate(blocks, size, na)
        IN  /\ blocks' = r.blocks
            /\ IF r.ret = NULL
               THEN /\ held' = held
                    /\ last' = Call("alloc", size, -1, 0, TRUE)
               ELSE LET n == CHOOSE i \in 1..Len(r.blocks) : r.blocks[i].addr = r.ret
                    IN  /\ held' = Append(held, Handle(r.ret, r.blocks[n].start, r.blocks[n].size))
                        /\ last' = Call("alloc", size, r.blocks[n].start, Len(held) + 1, TRUE)
    /\ pre' = View
    /\ UNCHANGED <<impl, vec, growth, rrVars>>

\* A client's call of allocate(size) on the vector-based allocator.
AllocateVec(size) ==
    /\ impl = "vector"
    /\ Len(held) < MaxAllocs
    /\ LET r == VecAllocate(vec, size, growth)
       IN  /\ vec' = r.vec
           /\ IF r.ret = VNULL
              THEN /\ held' = held
                   /\ last' = Call("alloc", size, -1, 0, TRUE)
              ELSE LET b == r.vec.elems[r.ret[2]]
                   IN  /\ held' = Append(held, Handle(r.ret, b.start, b.size))
                       /\ last' = Call("alloc", size, b.start, Len(held) + 1, TRUE)
    /\ pre' = View
    /\ UNCHANGED <<impl, blocks, growth, rrVars>>

\* deallocate(held[i].ptr) on the list-based allocator.
CallDeallocateList(i) ==
    /\ impl = "list"
    /\ blocks' = ListDeallocate(blocks, held[i].ptr)
    /\ held' = [held EXCEPT ![i].live = FALSE]
    /\ last' = Call("dealloc", held[i].size, held[i].start, i, held[i].live)
    /\ pre' = View
    /\ UNCHANGED <<impl, vec, growth, rrVars>>

\* deallocate(held[i].ptr) on the vector-based allocator.
CallDeallocateVec(i) ==
    /\ impl = "vector"
    /\ vec' \in VecDeallocateCall(vec, held[i].ptr)
    /\ held' = [held EXCEPT ![i].live = FALSE]
    /\ last' = Call("dealloc", held[i].size, held[i].start, i, held[i].live)
    /\ pre' = View
    /\ UNCHANGED <<impl, blocks, growth, rrVars>>

\* The client returns a handle it holds, once.
DeallocateList == \E i \in 1..Len(held) : held[i].live /\ CallDeallocateList(i)

DeallocateVec == \E i \in 1..Len(held) : held[i].live /\ CallDeallocateVec(i)

Next ==
    \/ \E size \in Sizes : AllocateList(size)
    \/ \E size \in Sizes : AllocateVec(size)
    \/ DeallocateList
    \/ DeallocateVec

\* Clients that use every handle at most once.
Spec == Init /\ [][Next]_vars

\* ------------------------------------------------------------ invalid use
\* The client returns a handle a second time: the pointer of a block that
\* was already freed, or that was merged away.
DeallocateAgainList == \E i \in 1..Len(held) : ~held[i].live /\ CallDeallocateList(i)

DeallocateAgainVec == \E i \in 1..Len(held) : ~held[i].live /\ CallDeallocateVec(i)

\* deallocate(nullptr) on the list-based allocator.
DeallocateNullList ==
    /\ impl = "list"
    /\ blocks' = ListDeallocate(blocks, NULL)
    /\ last' = Call("dealloc", 0, -1, 0, FALSE)
    /\ pre' = View
    /\ UNCHANGED <<impl, vec, growth, held, rrVars>>

\* deallocate(nullptr) on the vector-based allocator.
DeallocateNullVec ==
    /\ impl = "vector"
    /\ vec' \in VecDeallocateCall(vec, VNULL)
    /\ last' = Call("dealloc", 0, -1, 0, FALSE)
    /\ pre' = View
    /\ UNCHANGED <<impl, blocks, growth, held, rrVars>>

NextMisuse ==
    \/ Next
    \/ DeallocateAgainList
    \/ DeallocateAgainVec
    \/ DeallocateNullList
    \/ DeallocateNullVec

\* Clients that may also hand deallocate a null, freed or stale handle.
SpecMisuse == Init /\ [][NextMisuse]_vars

\* ===================================================== round-robin scheduler
\* main.cpp:111, std::min.
Min2(a, b) == IF b < a THEN b ELSE a

\* The preempted task pushed in front of the queue instead.
RequeueFront(q, t) == <<t>> \o q

\* main.cpp:119, tasks.push: the preempted task goes to the back of the queue.
Requeue(q, t) == Append(q, t)

\* The slice of one unit, whatever the quantum.
SliceTimeUnit(t, q) == 1

\* The slice without std::min: always a whole quantum.
SliceTimeWholeQuantum(t, q) == q

\* main.cpp:111, the slice: the quantum, or what is left of the task.
SliceTime(t, q) == Min2(t.executionTime, q)

\* main.cpp:113-116, the busy loop standing for the slice: the units it counts.
Spin(execTime) == IF 0 < execTime THEN execTime ELSE 0

\* Memory demands of the tasks: one that splits the arena, one that takes it
\* whole, one that can never fit.
Mems == {Threshold + 2, TotalSize, TotalSize + 1}

\* The queues addTask can build (main.cpp:94-96): up to MaxTasks tasks, ids
\* in order of arrival, all of priority 1.
Queues ==
    UNION {{[i \in 1..n |-> RealTimeTask(i, m[i], e[i], 1)] :
                m \in [1..n -> Mems], e \in [1..n -> 0..MaxExec]} : n \in 0..MaxTasks}

\* main.cpp:170-190 in general: an arena, a scheduler with a quantum > 0 and
\* its queued tasks, processTasks about to run.
InitRR ==
    /\ impl = "list"
    /\ growth = "x2"
    /\ blocks = ListInit(TotalSize)
    /\ vec = VecInit(TotalSize, growth)
    /\ held = <<>>
    /\ last = Call("init", 0, -1, 0, TRUE)
    /\ pre = {}
    /\ rrTasks \in Queues
    /\ quantum \in 1..MaxQuantum
    /\ pc = "loop"
    /\ task = NoTask
    /\ block = NULL
    /\ slice = NoSlice
    /\ completed = {}
    /\ totalSize = TotalSize
    /\ sjfTasks = <<>>
    /\ sjfPos = 0
    /\ simTasks = <<>>
    /\ log = <<>>
    /\ rrAdded = rrTasks
    /\ sjfAdded = <<>>

\* main.cpp:99-107 and 127-129: the front task is popped and its memory
\* requested; without a block the task is reported and the loop goes on.
RRTake ==
    /\ pc = "loop"
    /\ rrTasks # <<>>
    /\ task' = Head(rrTasks)
    /\ rrTasks' = Tail(rrTasks)
    /\ \E na \in FreeAddrs(blocks, {}) :
        LET r == ListAllocate(blocks, Head(rrTasks).memoryRequired, na)
        IN  /\ blocks' = r.blocks
            /\ block' = r.ret
            /\ pc' = IF r.ret # NULL THEN "run" ELSE "loop"
            /\ log' = Append(log, Event("rr", Head(rrTasks).id,
                                        IF r.ret # NULL THEN "alloc" ELSE "fail"))
    /\ UNCHANGED <<impl, vec, growth, clientVars, quantum, slice, completed>>
    /\ UNCHANGED <<totalSize, sjfTasks, sjfPos, simTasks, rrAdded, sjfAdded>>

\* main.cpp:111-124: the slice is served, the task's time reduced, and the
\* task pushed to the back of the queue unless it is finished.
RRRun ==
    /\ pc = "run"
    /\ LET execTime == SliceTime(task, quantum)
           after    == [task EXCEPT !.executionTime = task.executionTime - execTime]
       IN  /\ slice' = [id |-> task.id, before |-> task.executionTime, ran |-> Spin(execTime)]
           /\ task' = after
           /\ IF after.executionTime > 0
              THEN /\ rrTasks' = Requeue(rrTasks, after)
                   /\ completed' = completed
              ELSE /\ rrTasks' = rrTasks
                   /\ completed' = completed \cup {task.id}
    /\ pc' = "release"
    /\ log' = Append(log, Event("rr", task.id, "slice"))
    /\ UNCHANGED <<impl, blocks, vec, growth, clientVars, quantum, block>>
    /\ UNCHANGED <<totalSize, sjfTasks, sjfPos, simTasks, rrAdded, sjfAdded>>

\* main.cpp:125-126: the block is given back.
RRRelease ==
    /\ pc = "release"
    /\ blocks' = ListDeallocate(blocks, block)
    /\ block' = NULL
    /\ pc' = "loop"
    /\ log' = Append(log, Event("rr", task.id, "dealloc"))
    /\ UNCHANGED <<impl, vec, growth, clientVars, rrTasks, quantum, task, slice, completed>>
    /\ UNCHANGED <<totalSize, sjfTasks, sjfPos, simTasks, rrAdded, sjfAdded>>

\* processTasks returning between two tasks with tasks still queued.
RRReturnEarly ==
    /\ pc = "loop"
    /\ pc' = "done"
    /\ UNCHANGED <<impl, blocks, vec, growth, clientVars, rrTasks, quantum, task, block,
                   slice, completed, drvVars>>

\* main.cpp:99 and 131: the queue is empty and processTasks returns.
RRReturn ==
    /\ pc = "loop"
    /\ rrTasks = <<>>
    /\ pc' = "done"
    /\ UNCHANGED <<impl, blocks, vec, growth, clientVars, rrTasks, quantum, task, block,
                   slice, completed, drvVars>>

NextRR ==
    \/ RRTake
    \/ RRRun
    \/ RRRelease
    \/ RRReturn

\* RRScheduler::processTasks on a fresh arena.
SpecRR == InitRR /\ [][NextRR]_vars

\* The same, running on: processTasks is sequential code with no blocking
\* call, so a step that can be taken is taken.
SpecRRFair == InitRR /\ [][NextRR]_vars /\ WF_vars(NextRR)

\* ============================================================ SJF scheduler
\* The orders of 1..n.
Perms(n) == {p \in [1..n -> 1..n] : \A i, j \in 1..n : i # j => p[i] # p[j]}

\* The tasks left as they were added, not sorted.
NotSorted(ts) == {ts}

\* main.cpp:145-147, std::sort with "a.executionTime < b.executionTime":
\* the tasks in non-decreasing executionTime. std::sort is not a stable sort:
\* the order it leaves tasks of equal executionTime in is unspecified, so
\* every such order is a result.
StdSortByTime(ts) ==
    {[i \in 1..Len(ts) |-> ts[p[i]]] :
        p \in {q \in Perms(Len(ts)) :
                  \A i, j \in 1..Len(ts) :
                      i < j => ~(ts[q[j]].executionTime < ts[q[i]].executionTime)}}

\* The task after a failed one passed over.
AfterFailureSkipNext(pos) == pos + 2

\* The loop left at the first failure instead.
AfterFailureStop(pos) == Len(sjfTasks) + 1

\* main.cpp:163-165 and 148: after the report of a failure the loop goes on
\* with the next task.
AfterFailure(pos) == pos + 1

\* main.cpp:142-147: processTasks is entered, after round-robin returned, and
\* sorts its tasks.
SJFSort ==
    /\ pc = "done"
    /\ sjfTasks' \in StdSortByTime(sjfTasks)
    /\ sjfPos' = 1
    /\ pc' = "sjf"
    /\ UNCHANGED <<impl, blocks, vec, growth, clientVars, rrTasks, quantum, task, block,
                   slice, completed, totalSize, simTasks, log, rrAdded, sjfAdded>>

\* main.cpp:148-153 and 163-165: the next task's memory is requested;
\* without a block the task is reported and the loop moves on.
SJFTake ==
    /\ pc = "sjf"
    /\ sjfPos <= Len(sjfTasks)
    /\ task' = sjfTasks[sjfPos]
    /\ \E na \in FreeAddrs(blocks, {}) :
        LET r == ListAllocate(blocks, sjfTasks[sjfPos].memoryRequired, na)
        IN  /\ blocks' = r.blocks
            /\ block' = r.ret
            /\ pc' = IF r.ret # NULL THEN "sjfhold" ELSE "sjf"
            /\ sjfPos' = IF r.ret # NULL THEN sjfPos ELSE AfterFailure(sjfPos)
            /\ log' = Append(log, Event("sjf", sjfTasks[sjfPos].id,
                                        IF r.ret # NULL THEN "alloc" ELSE "fail"))
    /\ UNCHANGED <<impl, vec, growth, clientVars, rrTasks, quantum, slice, completed,
                   totalSize, sjfTasks, simTasks, rrAdded, sjfAdded>>

\* main.cpp:157-162: the task has run, its block is given back and the loop
\* moves on.
SJFRelease ==
    /\ pc = "sjfhold"
    /\ blocks' = ListDeallocate(blocks, block)
    /\ block' = NULL
    /\ sjfPos' = sjfPos + 1
    /\ pc' = "sjf"
    /\ log' = Append(log, Event("sjf", task.id, "dealloc"))
    /\ UNCHANGED <<impl, vec, growth, clientVars, rrTasks, quantum, task, slice, completed,
                   totalSize, sjfTasks, simTasks, rrAdded, sjfAdded>>

\* main.cpp:148, 166-167 and 195: the loop is over, processTasks and main
\* return.
SJFReturn ==
    /\ pc = "sjf"
    /\ sjfPos > Len(sjfTasks)
    /\ pc' = "exit"
    /\ UNCHANGED <<impl, blocks, vec, growth, clientVars, rrTasks, quantum, task, block,
                   slice, completed, drvVars>>

\* =========================================================== task simulator
\* tempCodeRunnerFile.h:14-20, RealTimeTask.
SimTask(i, mem, dl) == [id |-> i, memoryRequired |-> mem, deadline |-> dl]

\* tempCodeRunnerFile.h:38-44 and 51-53: the front task is popped and its
\* memory requested from the vector-based allocator.
SimTake ==
    /\ pc = "sim"
    /\ simTasks # <<>>
    /\ task' = Head(simTasks)
    /\ simTasks' = Tail(simTasks)
    /\ LET r == VecAllocate(vec, Head(simTasks).memoryRequired, growth)
       IN  /\ vec' = r.vec
           /\ block' = r.ret
           /\ pc' = IF r.ret # VNULL THEN "simhold" ELSE "sim"
           /\ log' = Append(log, Event("sim", Head(simTasks).id,
                                       IF r.ret # VNULL THEN "alloc" ELSE "fail"))
    /\ UNCHANGED <<impl, blocks, growth, clientVars, rrTasks, quantum, slice, completed,
                   totalSize, sjfTasks, sjfPos, rrAdded, sjfAdded>>

\* tempCodeRunnerFile.h:48-50: after the delay the block is given back.
SimRelease ==
    /\ pc = "simhold"
    /\ vec' \in VecDeallocateCall(vec, block)
    /\ block' = VNULL
    /\ pc' = "sim"
    /\ log' = Append(log, Event("sim", task.id, "dealloc"))
    /\ UNCHANGED <<impl, blocks, growth, clientVars, rrTasks, quantum, task, slice,
                   completed, totalSize, sjfTasks, sjfPos, simTasks, rrAdded, sjfAdded>>

\* tempCodeRunnerFile.h:38 and 55: the queue is empty, processTasks returns.
SimReturn ==
    /\ pc = "sim"
    /\ simTasks = <<>>
    /\ pc' = "simdone"
    /\ UNCHANGED <<impl, blocks, vec, growth, clientVars, rrTasks, quantum, task, block,
                   slice, completed, drvVars>>

\* ================================================================== drivers
\* main.cpp:172 and TaskSimulator_test.cpp:10, the arena of 1000 bytes.
MainTotal == 1000

\* main.cpp:177, the quantum of main, and one that no task outlasts.
MainQuanta == {150, 400}

\* <<memoryRequired, executionTime>> of the high priority tasks: those of
\* main.cpp:182-183, one that can never fit, one that needs the whole arena
\* and no time.
RRPool == {<<200, 300>>, <<250, 400>>, <<MainTotal + 1, 300>>, <<MainTotal, 0>>}

\* <<memoryRequired, executionTime>> of the low priority tasks: those of
\* main.cpp:186-187, one that can never fit, and one more that ties.
SJFPool == {<<150, 500>>, <<100, 200>>, <<MainTotal + 1, 200>>, <<100, 500>>}

\* <<memoryRequired, deadline>> of the simulator's tasks: those of
\* TaskSimulator_test.cpp:22-23, one that can never fit, and one within the
\* threshold of the whole arena.
SimPool == {<<200, 100>>, <<300, 200>>, <<MainTotal + 1, 100>>, <<MainTotal - 10, 100>>}

\* The tasks main adds: up to MaxTasks to each scheduler, ids in order, the
\* low priority ones numbered after the high priority ones.
QueuesOf(pool, first, prio) ==
    UNION {{[i \in 1..n |-> RealTimeTask(first + i, c[i][1], c[i][2], prio)] :
                c \in [1..n -> pool]} : n \in 0..MaxTasks}

SimQueues ==
    UNION {{[i \in 1..n |-> SimTask(i, c[i][1], c[i][2])] :
                c \in [1..n -> SimPool]} : n \in 0..MaxTasks}

\* main.cpp:170-190: the arena, both schedulers and their tasks, round-robin
\* about to run.
InitDriver ==
    /\ impl = "list"
    /\ growth = "x2"
    /\ quantum \in MainQuanta
    /\ rrTasks \in QueuesOf(RRPool, 0, 1)
    /\ sjfTasks \in QueuesOf(SJFPool, Len(rrTasks), 2)
    /\ simTasks = <<>>
    /\ pc = "loop"
    /\ block = NULL

\* TaskSimulator_test.cpp:8-27: the arena, the simulator and its tasks,
\* processTasks about to run.
InitSimulator ==
    /\ impl = "vector"
    /\ growth \in {"x2", "x1.5"}
    /\ quantum = 1
    /\ rrTasks = <<>>
    /\ sjfTasks = <<>>
    /\ simTasks \in SimQueues
    /\ pc = "sim"
    /\ block = VNULL

InitMain ==
    /\ InitDriver \/ InitSimulator
    /\ totalSize = MainTotal
    /\ blocks = ListInit(totalSize)
    /\ vec = VecInit(totalSize, growth)
    /\ held = <<>>
    /\ last = Call("init", 0, -1, 0, TRUE)
    /\ pre = {}
    /\ task = NoTask
    /\ slice = NoSlice
    /\ completed = {}
    /\ sjfPos = 0
    /\ log = <<>>
    /\ rrAdded = rrTasks
    /\ sjfAdded = sjfTasks

NextMain ==
    \/ RRTake
    \/ RRRun
    \/ RRRelease
    \/ RRReturn
    \/ SJFSort
    \/ SJFTake
    \/ SJFRelease
    \/ SJFReturn
    \/ SimTake
    \/ SimRelease
    \/ SimReturn

\* main of main.cpp (round-robin, then SJF, on the list-based allocator), or
\* main of TaskSimulator_test.cpp (the simulator on the vector-based one).
SpecMain == InitMain /\ [][NextMain]_vars

\* ============================================================= construction
\* Arena sizes and memory demands handed to the constructors: below zero,
\* zero, and above.
CtorTotals == {-1, 0, 1, TotalSize}
CtorMems == {-1, 0, 1}

\* Before main.cpp:172: no allocator, no scheduler, no task yet.
InitCtor ==
    /\ impl \in {"list", "vector"}
    /\ growth \in {"x2", "x1.5"}
    /\ impl = "list" => growth = "x2"
    /\ blocks = <<>>
    /\ vec = [data |-> 0, cap |-> 0, elems |-> <<>>]
    /\ totalSize = 0
    /\ held = <<>>
    /\ last = Call("init", 0, -1, 0, TRUE)
    /\ pre = {}
    /\ rrTasks = <<>>
    /\ quantum = 1
    /\ pc = "ctor"
    /\ task = NoTask
    /\ block = NULL
    /\ slice = NoSlice
    /\ completed = {}
    /\ sjfTasks = <<>>
    /\ sjfPos = 0
    /\ simTasks = <<>>
    /\ log = <<>>
    /\ rrAdded = <<>>
    /\ sjfAdded = <<>>

\* main.cpp:24-26, MemoryAllocator::MemoryAllocator(total): the field is set
\* and the block {0, total, free} is put in the list, whatever total is.
ConstructList(total) ==
    /\ pc = "ctor"
    /\ impl = "list"
    /\ totalSize' = total
    /\ blocks' = ListInit(total)
    /\ pc' = "built"
    /\ UNCHANGED <<impl, vec, growth, clientVars, rrTasks, quantum, task, block, slice,
                   completed, sjfTasks, sjfPos, simTasks, log, rrAdded, sjfAdded>>

\* FirstFitAllocator.h:25-27, FirstFitAllocator::FirstFitAllocator(memorySize):
\* likewise for the vector.
ConstructVec(total) ==
    /\ pc = "ctor"
    /\ impl = "vector"
    /\ totalSize' = total
    /\ vec' = VecInit(total, growth)
    /\ pc' = "built"
    /\ UNCHANGED <<impl, blocks, growth, clientVars, rrTasks, quantum, task, block, slice,
                   completed, sjfTasks, sjfPos, simTasks, log, rrAdded, sjfAdded>>

\* The tasks constructed and added so far.
AddedCount == Len(rrTasks) + Len(sjfTasks) + Len(simTasks)

\* main.cpp:83-84 and 94-96: a RealTimeTask is constructed from its arguments
\* as they are and pushed on the round-robin queue.
AddTaskRR(mem, execTime) ==
    /\ pc = "built"
    /\ impl = "list"
    /\ AddedCount < MaxTasks
    /\ rrTasks' = Append(rrTasks, RealTimeTask(AddedCount + 1, mem, execTime, 1))
    /\ rrAdded' = rrTasks'
    /\ UNCHANGED <<impl, blocks, vec, growth, clientVars, quantum, pc, task, block, slice,
                   completed, totalSize, sjfTasks, sjfPos, simTasks, log, sjfAdded>>

\* main.cpp:83-84 and 139-141: likewise for the SJF scheduler's vector.
AddTaskSJF(mem, execTime) ==
    /\ pc = "built"
    /\ impl = "list"
    /\ AddedCount < MaxTasks
    /\ sjfTasks' = Append(sjfTasks, RealTimeTask(AddedCount + 1, mem, execTime, 2))
    /\ sjfAdded' = sjfTasks'
    /\ UNCHANGED <<impl, blocks, vec, growth, clientVars, rrTasks, quantum, pc, task, block,
                   slice, completed, totalSize, sjfPos, simTasks, log, rrAdded>>

\* tempCodeRunnerFile.h:20 and 32-34: likewise for the simulator's queue.
AddTaskSim(mem, dl) ==
    /\ pc = "built"
    /\ impl = "vector"
    /\ AddedCount < MaxTasks
    /\ simTasks' = Append(simTasks, SimTask(AddedCount + 1, mem, dl))
    /\ UNCHANGED <<impl, blocks, vec, growth, clientVars, rrTasks, quantum, pc, task, block,
                   slice, completed, totalSize, sjfTasks, sjfPos, log, rrAdded, sjfAdded>>

NextCtor ==
    \/ \E total \in CtorTotals : ConstructList(total)
    \/ \E total \in CtorTotals : ConstructVec(total)
    \/ \E mem \in CtorMems, execTime \in 0..1 : AddTaskRR(mem, execTime)
    \/ \E mem \in CtorMems, execTime \in 0..1 : AddTaskSJF(mem, execTime)
    \/ \E mem \in CtorMems, dl \in 0..1 : AddTaskSim(mem, dl)

\* The constructions a caller can write: an allocator, then tasks.
SpecCtor == InitCtor /\ [][NextCtor]_vars

\* =================================================================== claims
RECURSIVE SumSizes(_)
SumSizes(s) == IF s = <<>> THEN 0 ELSE Head(s).size + SumSizes(Tail(s))

\* The blocks of s, followed from address 0 by "next start = start + size",
\* cover [0, TotalSize) exactly: positive sizes, distinct starts, a block at
\* 0, every block ending at TotalSize or where another starts, sizes adding
\* up to TotalSize.
Partition(s) ==
    /\ \A i \in 1..Len(s) : s[i].size > 0
    /\ \A i, j \in 1..Len(s) : i # j => s[i].start # s[j].start
    /\ \E i \in 1..Len(s) : s[i].start = 0
    /\ \A i \in 1..Len(s) :
        \/ s[i].start + s[i].size = TotalSize
        \/ \E j \in 1..Len(s) : s[j].start = s[i].start + s[i].size
    /\ SumSizes(s) = TotalSize

\* No block that ends where another starts is free together with it.
NoAdjacentFree(s) ==
    \A i, j \in 1..Len(s) :
        s[i].start + s[i].size = s[j].start => ~(s[i].free /\ s[j].free)

\* The block of the collection S at address a.
At(S, a) == CHOOSE b \in S : b.start = a

\* The starts of the allocated blocks of S.
Allocated(S) == {b.start : b \in {x \in S : ~x.free}}

\* The blocks of S that can serve a request of `size`.
Fitting(S, size) == {b \in S : b.free /\ b.size >= size}

\* The block a pointer identifies: the node at that address (list); the
\* slot's block when the pointer is into the current buffer at a slot in use
\* (vector), and none when the pointer is invalid.
Resolve(p) ==
    IF impl = "list"
    THEN {Block(blocks[i].start, blocks[i].size, blocks[i].free) :
              i \in {j \in 1..Len(blocks) : blocks[j].addr = p}}
    ELSE IF p[1] = vec.data /\ p[2] \in 1..Len(vec.elems)
    THEN {vec.elems[p[2]]}
    ELSE {}

\* C1. Partition invariant: in every state reached by allocate(size > 0) and
\* deallocate of handles allocate returned, with either allocator, the blocks
\* in address order are contiguous from 0, do not overlap, have size > 0 and
\* sum to totalSize.
C1_Partition == Partition(Container)

\* C1 happens: the vector holds its blocks out of address order after a split
\* in the middle, some free and some allocated.
C1_Witness ==
    /\ impl = "vector"
    /\ last.op = "alloc"
    /\ \E i, j \in 1..Len(vec.elems) : i < j /\ vec.elems[i].start > vec.elems[j].start
    /\ \E b \in View : b.free
    /\ \E b \in View : ~b.free

\* C2. Handle stability: every handle the client still holds identifies an
\* allocated block at the start address it was returned for, and a deallocate
\* of a held handle frees the block at that start address and no other.
C2_HandleStability ==
    /\ \A i \in 1..Len(held) :
        held[i].live =>
            \E b \in Resolve(held[i].ptr) : b.start = held[i].start /\ ~b.free
    /\ (last.op = "dealloc" /\ last.valid) =>
        Allocated(View) = Allocated(pre) \ {last.start}

\* C3. Coalescing round-trip: once every handle allocate returned has been
\* deallocated exactly once, the collection is the single free block
\* {0, totalSize, free}.
C3_RoundTrip ==
    (Len(held) > 0 /\ \A i \in 1..Len(held) : ~held[i].live) =>
        /\ View = {Block(0, TotalSize, TRUE)}
        /\ Len(Container) = 1

\* C4. No-adjacent-free invariant: after every completed allocate or
\* deallocate no two blocks adjacent by address are both free; a deallocate
\* between a free predecessor and a free successor leaves one block for the
\* three.
C4_NoAdjacentFree == NoAdjacentFree(Container)

\* C4 happens: a deallocate merged three blocks into one.
C4_Witness ==
    /\ last.op = "dealloc"
    /\ Cardinality(pre) = Cardinality(View) + 2
    /\ \E b \in View : b.free /\ b.start < last.start /\ last.start + last.size < b.start + b.size

\* C5. First-fit in address order: a successful allocate(size) returns the
\* block at the lowest start address among the free blocks of size >= size.
C5_FirstFitAddressOrder ==
    (last.op = "alloc" /\ last.start # -1) =>
        last.start = Min({b.start : b \in Fitting(pre, last.size)})

\* C6. Threshold: an allocate(size) that selects a free block of size
\* size + k, 0 <= k <= 16, marks that whole block allocated at its original
\* size, creates no block and leaves the number of blocks unchanged.
C6_Threshold ==
    (/\ last.op = "alloc"
     /\ last.start # -1
     /\ At(pre, last.start).size - last.size <= Threshold) =>
        /\ View = (pre \ {At(pre, last.start)})
                      \cup {[At(pre, last.start) EXCEPT !.free = FALSE]}
        /\ Cardinality(View) = Cardinality(pre)

\* C7. Split: an allocate(size) that selects a free block at a of size
\* size + k, k > 16, leaves an allocated block of exactly `size` at a and a
\* new free block of size k at a + size; every other block is unchanged.
C7_Split ==
    (/\ last.op = "alloc"
     /\ last.start # -1
     /\ At(pre, last.start).size - last.size > Threshold) =>
        LET b == At(pre, last.start)
        IN  /\ b.free
            /\ View = (pre \ {b})
                          \cup {Block(b.start, last.size, FALSE),
                                Block(b.start + last.size, b.size - last.size, TRUE)}
            /\ Cardinality(View) = Cardinality(pre) + 1

\* C7 happens: a split, with three other blocks left as they were.
C7_Witness ==
    /\ last.op = "alloc"
    /\ last.start # -1
    /\ At(pre, last.start).size - last.size > Threshold
    /\ Cardinality(pre) >= 3

\* C8. Allocation failure: allocate(size) returns nullptr exactly when no
\* block is free and of size >= size, and then the collection is unchanged
\* and the client has no new handle.
C8_Failure ==
    last.op = "alloc" =>
        /\ (last.start = -1) <=> (Fitting(pre, last.size) = {})
        /\ last.start = -1 => View = pre /\ Cardinality(View) = Len(Container)
        /\ last.start # -1 => ~At(View, last.start).free /\ last.h = Len(held)

\* C8 happens: a request fails while a free block, too small, exists.
C8_Witness ==
    /\ last.op = "alloc"
    /\ last.start = -1
    /\ \E b \in View : b.free /\ b.size < last.size
    /\ \E b \in View : ~b.free

\* C9. Invalid handle use is harmless: a deallocate of nullptr, of a handle
\* already freed or of a stale handle leaves the block collection as it was,
\* and with it the partition and no-adjacent-free invariants.
C9_InvalidHarmless ==
    /\ (last.op = "dealloc" /\ ~last.valid) => View = pre
    /\ Partition(Container)
    /\ NoAdjacentFree(Container)

\* C10. Round-robin slice: a task whose allocation succeeded runs for exactly
\* min(remaining executionTime, quantum) units, its executionTime goes down by
\* that amount and is never negative, it is at the back of the queue exactly
\* when its executionTime is still > 0 after the slice, and a completed task
\* is never queued or served again.
C10_Slice ==
    /\ pc = "release" =>
        /\ slice.id = task.id
        /\ slice.ran = (IF slice.before < quantum THEN slice.before ELSE quantum)
        /\ task.executionTime = slice.before - slice.ran
        /\ task.executionTime >= 0
        /\ task.executionTime > 0 =>
            /\ rrTasks # <<>>
            /\ rrTasks[Len(rrTasks)] = task
            /\ \A i \in 1..(Len(rrTasks) - 1) : rrTasks[i].id # task.id
            /\ task.id \notin completed
        /\ ~(task.executionTime > 0) =>
            /\ \A i \in 1..Len(rrTasks) : rrTasks[i].id # task.id
            /\ task.id \in completed
    /\ \A i \in 1..Len(rrTasks) :
        rrTasks[i].id \notin completed /\ rrTasks[i].executionTime >= 0
    /\ pc = "run" => task.id \notin completed

\* C10 happens: a task's last slice was shorter than the quantum and finished
\* it after an earlier slice of a full quantum, while another task, cut off
\* at the quantum, waits at the back of the queue.
C10_Witness ==
    /\ pc = "release"
    /\ slice.ran > 0
    /\ slice.ran < quantum
    /\ task.executionTime = 0
    /\ task.id \in completed
    /\ rrTasks # <<>>
    /\ rrTasks[Len(rrTasks)].executionTime > 0

\* ------------------------------------------------------------ run histories
\* The ids of the tasks of the events ev of scheduler sched, in order.
IdsOf(sched, ev) ==
    LET es == SelectSeq(log, LAMBDA e : e.sched = sched /\ e.ev = ev)
    IN  [i \in 1..Len(es) |-> es[i].id]

IsPrefix(a, b) == Len(a) <= Len(b) /\ \A i \in 1..Len(a) : a[i] = b[i]

RRRunning == pc \in {"loop", "run", "release"}

\* The round-robin tasks of main.cpp:182-183 under the quantum of main.cpp:177.
MainRRScenario ==
    /\ quantum = 150
    /\ rrAdded = <<RealTimeTask(1, 200, 300, 1), RealTimeTask(2, 250, 400, 1)>>

\* C11 as stated. With quantum 150 and task 1 (executionTime 300) queued
\* before task 2 (executionTime 400), the slices served are task 1, task 2,
\* task 1, task 2, task 1, task 2.
C11_SixSlices ==
    (MainRRScenario /\ ~RRRunning) => IdsOf("rr", "slice") = <<1, 2, 1, 2, 1, 2>>

\* C11, amended. With quantum 150 and task 1 (executionTime 300) queued
\* before task 2 (executionTime 400), the slices served are task 1, task 2,
\* task 1 (task 1 finishes), task 2, task 2 (task 2 finishes): five slices,
\* served in that order and both tasks completed once processTasks returned.
C11_FiveSlices ==
    MainRRScenario =>
        /\ IsPrefix(IdsOf("rr", "slice"), <<1, 2, 1, 2, 2>>)
        /\ 1 \in completed <=> Len(IdsOf("rr", "slice")) >= 3
        /\ 2 \in completed <=> Len(IdsOf("rr", "slice")) >= 5
        /\ ~RRRunning => IdsOf("rr", "slice") = <<1, 2, 1, 2, 2>>

\* C11 happens: round-robin returned from the scenario of main after the
\* five slices.
C11_Witness ==
    /\ MainRRScenario
    /\ pc = "done"
    /\ Len(IdsOf("rr", "slice")) = 5
    /\ completed = {1, 2}

\* The ids of the tasks whose allocation scheduler sched attempted, in order.
Attempts(sched) ==
    LET es == SelectSeq(log, LAMBDA e : e.sched = sched /\ e.ev \in {"alloc", "fail"})
    IN  [i \in 1..Len(es) |-> es[i].id]

Range(f) == {f[i] : i \in DOMAIN f}

\* The task that was added with id i.
Added(i) ==
    CHOOSE t \in Range(rrAdded) \cup Range(sjfAdded) : t.id = i

\* C12. SJFScheduler::processTasks serves its tasks in non-decreasing order of
\* executionTime, whatever the order they were added in: no task is attempted
\* after a task with a longer executionTime, nor while a task with a shorter
\* one still waits.
C12_SJFOrder ==
    LET a == Attempts("sjf")
    IN  /\ \A i, j \in 1..Len(a) :
            i < j => Added(a[i]).executionTime <= Added(a[j]).executionTime
        /\ \A i \in 1..Len(a) : \A t \in Range(sjfAdded) :
            t.id \notin Range(a) => Added(a[i]).executionTime <= t.executionTime

\* C12 happens: tasks added as 500 then 200 were both served, the one with
\* 200 first.
C12_Witness ==
    /\ pc = "exit"
    /\ Len(sjfAdded) = 2
    /\ sjfAdded[1].executionTime = 500
    /\ sjfAdded[2].executionTime = 200
    /\ IdsOf("sjf", "dealloc") = <<sjfAdded[2].id, sjfAdded[1].id>>

\* The place of the task with id i in the order of the addTask calls.
AddedAt(i) == CHOOSE k \in 1..Len(sjfAdded) : sjfAdded[k].id = i

\* C13. SJF tasks of equal executionTime are served in the order they were
\* added in, so the order of service is a function of the insertion sequence.
C13_StableTies ==
    LET a == Attempts("sjf")
    IN  \A i, j \in 1..Len(a) :
            (i < j /\ Added(a[i]).executionTime = Added(a[j]).executionTime)
                => AddedAt(a[i]) < AddedAt(a[j])

\* The ids of the tasks scheduler sched could not allocate for.
Failed(sched) == Range(IdsOf(sched, "fail"))

Ids(ts) == [i \in 1..Len(ts) |-> ts[i].id]

\* The tasks ts without those whose id is in S.
Without(ts, S) == SelectSeq(ts, LAMBDA t : t.id \notin S)

\* The slices round-robin owes the queue q: the front task is served for
\* min(executionTime, qt) and goes to the back while time is left.
RECURSIVE RoundRobin(_, _)
RoundRobin(q, qt) ==
    IF q = <<>> THEN <<>>
    ELSE LET t    == Head(q)
             left == t.executionTime - (IF t.executionTime < qt THEN t.executionTime ELSE qt)
         IN  <<t.id>> \o RoundRobin(IF left > 0
                                    THEN Append(Tail(q), [t EXCEPT !.executionTime = left])
                                    ELSE Tail(q), qt)

\* Nothing more happens to a task after scheduler sched failed to allocate
\* for it.
FailureIsLast(sched) ==
    \A k \in 1..Len(log) :
        (log[k].sched = sched /\ log[k].ev = "fail") =>
            /\ \A n \in 1..Len(log) : (n # k /\ log[n].sched = sched) => log[n].id # log[k].id
            /\ \A n \in 1..Len(rrTasks) : sched = "rr" => rrTasks[n].id # log[k].id

\* The step that reports a failure leaves the arena and the other tasks as
\* they were.
FailureStep ==
    (log' # log /\ log'[Len(log')].ev = "fail" /\ log'[Len(log')].sched \in {"rr", "sjf"}) =>
        /\ blocks' = blocks
        /\ block' = NULL
        /\ quantum' = quantum
        /\ log'[Len(log')].sched = "rr" =>
            /\ rrTasks' = Tail(rrTasks)
            /\ sjfTasks' = sjfTasks
            /\ pc' = "loop"
        /\ log'[Len(log')].sched = "sjf" =>
            /\ sjfTasks' = sjfTasks
            /\ sjfPos' = sjfPos + 1
            /\ pc' = "sjf"

\* C14. A failed allocation in a scheduler is local: round-robin drops the
\* task and never queues it again, SJF skips it, the failing step changes
\* neither the arena nor the other tasks, and the other tasks are served as
\* in a run the failed tasks were never added to.
C14_FailureLocal ==
    /\ [](/\ FailureIsLast("rr")
          /\ FailureIsLast("sjf")
          /\ ~RRRunning =>
                IdsOf("rr", "slice") = RoundRobin(Without(rrAdded, Failed("rr")), quantum)
          /\ pc = "exit" =>
                IdsOf("sjf", "alloc") = Ids(Without(sjfTasks, Failed("sjf"))))
    /\ [][FailureStep]_vars

\* C14 happens: main returned after round-robin dropped a task and served a
\* later one, and SJF skipped a task and served a later one.
C14_Witness ==
    /\ pc = "exit"
    /\ \E k, n \in 1..Len(log) :
        /\ k < n
        /\ log[k] = Event("rr", log[k].id, "fail")
        /\ log[n] = Event("rr", log[n].id, "slice")
    /\ \E k, n \in 1..Len(log) :
        /\ k < n
        /\ log[k] = Event("sjf", log[k].id, "fail")
        /\ log[n] = Event("sjf", log[n].id, "dealloc")

\* The tasks main.cpp:182-187 adds, under the quantum of main.cpp:177.
MainScenario ==
    /\ MainRRScenario
    /\ sjfAdded = <<RealTimeTask(3, 150, 500, 2), RealTimeTask(4, 100, 200, 2)>>

\* C15. Once round-robin and then SJF have returned, and once the task
\* simulator has returned, whatever tasks were queued, the arena is again the
\* single free block {0, totalSize, free}; for the arena of 1000 and the
\* tasks of main, one free block of size 1000.
C15_Reclaimed ==
    /\ pc \in {"exit", "simdone"} =>
        /\ Len(Container) = 1
        /\ View = {Block(0, totalSize, TRUE)}
    /\ (pc = "exit" /\ MainScenario) => View = {Block(0, 1000, TRUE)}

\* C15 happens: main returned from its scenario after each of its four tasks
\* held and gave back a block.
C15_Witness ==
    /\ pc = "exit"
    /\ MainScenario
    /\ Range(IdsOf("rr", "dealloc")) \cup Range(IdsOf("sjf", "dealloc")) = {1, 2, 3, 4}
    /\ View = {Block(0, 1000, TRUE)}

\* The task simulator returned after its tasks held and gave back blocks.
C15_SimulatorReturned ==
    /\ pc = "simdone"
    /\ Len(IdsOf("sim", "dealloc")) = 2

\* C16. In the driver every slice of every round-robin task, its last one
\* and its drop on a failed allocation included, comes before the first
\* allocation attempt of any SJF task: no round-robin event follows an SJF
\* event, and from the first SJF attempt on the round-robin queue is empty
\* and each of its tasks is completed or dropped.
C16_TwoPhase ==
    /\ \A k, n \in 1..Len(log) :
        (log[k].sched = "rr" /\ log[n].sched = "sjf") => k < n
    /\ (pc \in {"sjf", "sjfhold", "exit"} \/ Attempts("sjf") # <<>>) =>
        /\ rrTasks = <<>>
        /\ \A i \in 1..Len(rrAdded) :
            rrAdded[i].id \in completed \cup Failed("rr")
        /\ IdsOf("rr", "slice") = RoundRobin(Without(rrAdded, Failed("rr")), quantum)

\* C16 happens: the first SJF task holds its block after round-robin served
\* one task in several slices and dropped another.
C16_Witness ==
    /\ pc = "sjfhold"
    /\ Len(Attempts("sjf")) = 1
    /\ Failed("rr") # {}
    /\ Len(IdsOf("rr", "slice")) > 1

\* C17. Construction with non-positive sizes is rejected: no constructed
\* arena has a block of size <= 0 and no queued task has memoryRequired <= 0.
C17_NonPositiveRejected ==
    /\ \A i \in 1..Len(Container) : Container[i].size > 0
    /\ \A t \in Range(rrTasks) \cup Range(sjfTasks) \cup Range(simTasks) :
        t.memoryRequired > 0

\* The number of slices served to the task with id i.
SliceCount(i) == Cardinality({k \in 1..Len(log) : log[k] = Event("rr", i, "slice")})

\* max(1, ceil(execTime / qt)).
SlicesNeeded(execTime, qt) ==
    LET c == (execTime + qt - 1) \div qt
    IN  IF c < 1 THEN 1 ELSE c

\* C18. For any queued tasks with executionTime >= 0 and any quantum > 0,
\* RRScheduler::processTasks eventually returns, with an empty queue and each
\* task either completed after exactly max(1, ceil(executionTime / quantum))
\* slices or dropped on a failed allocation without a slice; no task is
\* lost, and none is served beyond the slices it needs.
C18_Termination ==
    /\ <>(pc = "done")
    /\ [](\A i \in 1..Len(rrAdded) :
            SliceCount(rrAdded[i].id) <= SlicesNeeded(rrAdded[i].executionTime, quantum))
    /\ [](pc = "done" =>
            /\ rrTasks = <<>>
            /\ \A i \in 1..Len(rrAdded) :
                LET t == rrAdded[i]
                IN  \/ /\ t.id \in completed
                       /\ t.id \notin Failed("rr")
                       /\ SliceCount(t.id) = SlicesNeeded(t.executionTime, quantum)
                    \/ /\ t.id \in Failed("rr")
                       /\ t.id \notin completed
                       /\ SliceCount(t.id) = 0)

\* C18 happens: processTasks returned after it completed a task in several
\* slices, the last one shorter than the quantum, completed a task of no
\* executionTime in one slice, or dropped a task.
C18_Witness ==
    /\ pc = "done"
    /\ rrTasks = <<>>
    /\ Len(rrAdded) = MaxTasks
    /\ \E i \in 1..Len(rrAdded) :
        /\ rrAdded[i].id \in completed
        /\ rrAdded[i].executionTime > quantum
        /\ rrAdded[i].executionTime % quantum # 0
        /\ SliceCount(rrAdded[i].id) > 1
    /\ \E i \in 1..Len(rrAdded) :
        \/ rrAdded[i].id \in Failed("rr")
        \/ rrAdded[i].executionTime = 0 /\ SliceCount(rrAdded[i].id) = 1

\* C19. One SJFScheduler::processTasks run attempts allocate exactly once for
\* every added task, whether the attempt succeeds or fails: the attempts
\* follow the sorted vector from its front, without a retry or a change of
\* order after a failure, all tasks have had theirs when processTasks
\* returns, and a block allocated for a task is deallocated before the next
\* attempt.
C19_VisitOnce ==
    LET a == Attempts("sjf")
    IN  /\ \A i, j \in 1..Len(a) : i # j => a[i] # a[j]
        /\ pc \in {"sjf", "sjfhold", "exit"} =>
            /\ IsPrefix(a, Ids(sjfTasks))
            /\ Range(Ids(sjfTasks)) = Range(Ids(sjfAdded))
            /\ Len(sjfTasks) = Len(sjfAdded)
        /\ pc = "exit" => a = Ids(sjfTasks)
        /\ pc = "sjf" => /\ Len(a) = sjfPos - 1
                         /\ block = NULL
                         /\ \A b \in View : b.free
        /\ \A k \in 1..Len(log) :
            (log[k].sched = "sjf" /\ log[k].ev = "alloc" /\ k < Len(log))
                => log[k + 1] = Event("sjf", log[k].id, "dealloc")

\* C19 happens: processTasks returned after a failed attempt for its first
\* task and a successful one for a later task.
C19_Witness ==
    /\ pc = "exit"
    /\ Len(sjfAdded) = MaxTasks
    /\ Len(Attempts("sjf")) = MaxTasks
    /\ Attempts("sjf")[1] \in Failed("sjf")
    /\ IdsOf("sjf", "dealloc") # <<>>

\* The scheduler or simulator stands between two tasks, or has returned.
BetweenTasks == pc \in {"loop", "done", "sjf", "exit", "sim", "simdone"}

\* C20. While the schedulers and the simulator run on an arena that was
\* entirely free at the start, at most one block is allocated at any moment,
\* the arena is the single free block at every allocation attempt, and a
\* task's allocation fails exactly when its memoryRequired exceeds totalSize.
C20_SingleOutstanding ==
    /\ Cardinality({i \in 1..Len(Container) : ~Container[i].free}) <= 1
    /\ BetweenTasks =>
        /\ Len(Container) = 1
        /\ View = {Block(0, totalSize, TRUE)}
    /\ ~BetweenTasks =>
        /\ Cardinality({i \in 1..Len(Container) : ~Container[i].free}) = 1
        /\ block # (IF impl = "list" THEN NULL ELSE VNULL)
    /\ (log # <<>> /\ log[Len(log)].ev \in {"alloc", "fail"}) =>
        /\ log[Len(log)].id = task.id
        /\ log[Len(log)].ev = "fail" <=> task.memoryRequired > totalSize

\* C20 happens: a task holds the only allocated block, the whole arena, after
\* a task that asked for more than totalSize was dropped.
C20_Witness ==
    /\ pc = "run"
    /\ Failed("rr") # {}
    /\ task.memoryRequired = totalSize
    /\ View = {Block(0, totalSize, FALSE)}

====
